---- MODULE Spec2Model ----
(***************************************************************************)
(* Cadastral Notes Map (src/app.js): the parcel lookup (bounding box,      *)
(* ray casting, holes, MultiPolygon), the parcel identifier, the           *)
(* asynchronous overlay load, the snap step of the draw-created handler    *)
(* and the two note stores.                                                *)
(*                                                                         *)
(* JavaScript values are tagged records, strings are sequences of          *)
(* one-character strings, a GeoJSON position [x, y] is the tuple <<x, y>>, *)
(* and JavaScript's 0-based indices are shifted to TLA+'s 1-based ones.    *)
(***************************************************************************)
EXTENDS Integers, Sequences, FiniteSets

VARIABLES
    rawFeatures,        \* geojson.features of the fetched file
    loadPhase,          \* "loading" | "loaded" | "failed": loadCadastralOverlay's promise
    cadastralLoaded,    \* let cadastralLoaded
    cadastralFeatures,  \* let cadastralFeatures
    cadastralLayer,     \* let cadastralLayer: null, or the per-feature click wiring
    statusLine,         \* textContent of #cadStatusLine
    snapEnabled,        \* let snapEnabled
    parcelNotes,        \* let parcelNotes (an object: its entries in insertion order)
    notesStore,         \* localStorage[CAD_NOTES_KEY]
    drawnItems,         \* the layers of the drawnItems feature group
    drawingsStore,      \* localStorage[DRAWINGS_KEY]
    popup,              \* the open note popup and what its handler captured
    toasts,             \* the toasts that still show an Undo button
    lastEvent,          \* what the last handler did (observation only)
    query,              \* the latlng handed to the parcel search
    found,              \* what the parcel search returned
    idInput,            \* getParcelId's arguments
    idOutput,           \* getParcelId's result
    ringInput,          \* pointInRing's arguments
    ringOutput          \* pointInRing's results

vars == << rawFeatures, loadPhase, cadastralLoaded, cadastralFeatures, cadastralLayer,
           statusLine, snapEnabled, parcelNotes, notesStore, drawnItems, drawingsStore,
           popup, toasts, lastEvent, query, found, idInput, idOutput, ringInput,
           ringOutput >>

----------------------------------------------------------------------------
(* Bounds of the model. *)

\* query coordinates range over QMin .. GridMax
GridMax == 7
\* features in a fetched file
MaxParcels == 2
\* identifying candidates a feature of the identifier check carries
MaxSetKeys == 2
\* the index argument of getParcelId ranges over 0 .. MaxIndex
MaxIndex == 3

\* features in the file of the running application
MaxAppParcels == 2
\* layers in drawnItems
MaxDrawn == 1
\* toasts showing an Undo button at the same time
MaxToasts == 1

QMin == 0 - 1

\* ring vertices lie on the grid 3 * (0 .. RingMax), rings have up to MaxRing
\* vertices, substitute denominators are the non-zero -SubMax .. SubMax
RingMax == 1
MaxRing == 3
SubMax == 2

----------------------------------------------------------------------------
(* JavaScript values and strings. *)

Undefined == [t |-> "undefined", s |-> <<>>, n |-> 0]
Null == [t |-> "null", s |-> <<>>, n |-> 0]
Str(s) == [t |-> "string", s |-> s, n |-> 0]
Num(n) == [t |-> "number", s |-> <<>>, n |-> n]

RECURSIVE Digits(_)
Digits(n) ==
    IF n < 10
    THEN << CASE n = 0 -> "0" [] n = 1 -> "1" [] n = 2 -> "2" [] n = 3 -> "3"
              [] n = 4 -> "4" [] n = 5 -> "5" [] n = 6 -> "6" [] n = 7 -> "7"
              [] n = 8 -> "8" [] OTHER -> "9" >>
    ELSE Digits(n \div 10) \o Digits(n % 10)

\* String(v)
StringOf(v) ==
    CASE v.t = "undefined" -> << "u", "n", "d", "e", "f", "i", "n", "e", "d" >>
      [] v.t = "null" -> << "n", "u", "l", "l" >>
      [] v.t = "number" -> Digits(v.n)
      [] OTHER -> v.s

RECURSIVE TrimStart(_)
TrimStart(s) == IF s # <<>> /\ Head(s) = " " THEN TrimStart(Tail(s)) ELSE s

RECURSIVE TrimEnd(_)
TrimEnd(s) ==
    IF s # <<>> /\ s[Len(s)] = " " THEN TrimEnd(SubSeq(s, 1, Len(s) - 1)) ELSE s

\* String.prototype.trim
Trim(s) == TrimEnd(TrimStart(s))

----------------------------------------------------------------------------
(* Geometry helpers of the snap step. *)

\* IEEE +Infinity: an integer beyond every coordinate of the model
Infinity == 1000000

Min2(a, b) == IF a < b THEN a ELSE b
Max2(a, b) == IF a > b THEN a ELSE b

\* latLngToPoint returning Leaflet's order instead of GeoJSON's
latLngToPointSwapped(ll) == << ll.lat, ll.lng >>

\* latLngToPoint: GeoJSON order
latLngToPoint(ll) == << ll.lng, ll.lat >>

\* the walk of bboxOfCoords: d is the nesting depth of c, standing for the
\* typeof tests (a position is an array whose first two elements are numbers)
RECURSIVE walk(_, _, _)
walk(c, d, bb) ==
    IF d = 1
    THEN IF Len(c) >= 2
         THEN << Min2(bb[1], c[1]), Min2(bb[2], c[2]), Max2(bb[3], c[1]), Max2(bb[4], c[2]) >>
         ELSE bb
    ELSE IF c = <<>> THEN bb
         ELSE walk(Tail(c), d, walk(Head(c), d - 1, bb))

\* bboxOfCoords(g.coordinates): walk(undefined) reads c[0] of undefined, a TypeError
bboxRaises(g) == ~g.hasCoords

bboxOfCoords(g) == walk(g.coordinates, g.depth, << Infinity, Infinity, 0 - Infinity, 0 - Infinity >>)

\* x < (xj - xi) * (y - yi) / ((yj - yi) || 1e-12) + xi  over exact arithmetic;
\* with the substitute denominator the quotient is n * 10^12, beyond every
\* coordinate difference unless n = 0
rayLeftOfEdge(x, y, xi, yi, xj, yj) ==
    LET n == (xj - xi) * (y - yi)
        d == yj - yi
    IN  IF d > 0 THEN (x - xi) * d < n
        ELSE IF d < 0 THEN (x - xi) * d > n
        ELSE n > 0 \/ (n = 0 /\ x < xi)

\* the right operand of && alone
intersectUnguarded(pt, vi, vj) == rayLeftOfEdge(pt[1], pt[2], vi[1], vi[2], vj[1], vj[2])

intersect(pt, vi, vj) ==
    ((vi[2] > pt[2]) # (vj[2] > pt[2]))
        /\ rayLeftOfEdge(pt[1], pt[2], vi[1], vi[2], vj[1], vj[2])

\* the loop of pointInRing from index i on, j its predecessor
RECURSIVE ringLoop(_, _, _, _, _)
ringLoop(pt, ring, i, j, inside) ==
    IF i > Len(ring) THEN inside
    ELSE ringLoop(pt, ring, i + 1, i,
                  IF intersect(pt, ring[i], ring[j]) THEN ~inside ELSE inside)

\* a loop that leaves out the edge from the last vertex back to the first
pointInRingOpen(pt, ring) == ringLoop(pt, ring, 2, 1, FALSE)

pointInRing(pt, ring) == ringLoop(pt, ring, 1, Len(ring), FALSE)

\* pointInRing not yet called
NoRingInput == [pt |-> << 0, 0 >>, ring |-> <<>>]
NoRingOutput == [done |-> FALSE, asGiven |-> FALSE, closed |-> FALSE, substituted |-> {},
                 levelEdgeFlips |-> FALSE, guardUsed |-> FALSE]

\* the hole loop starting one ring late
holeLoopFromNext(pt, polygonCoords, i) ==
    \A h \in (i + 1) .. Len(polygonCoords) : ~pointInRing(pt, polygonCoords[h])

\* the hole loop of pointInPolygon from ring i on
RECURSIVE holeLoop(_, _, _)
holeLoop(pt, polygonCoords, i) ==
    IF i > Len(polygonCoords) THEN TRUE
    ELSE IF pointInRing(pt, polygonCoords[i]) THEN FALSE
    ELSE holeLoop(pt, polygonCoords, i + 1)

pointInPolygon(pt, hasCoords, polygonCoords) ==
    IF ~hasCoords \/ Len(polygonCoords) = 0 THEN FALSE
    ELSE IF ~pointInRing(pt, polygonCoords[1]) THEN FALSE
    ELSE holeLoop(pt, polygonCoords, 2)

\* geom.coordinates.some(...) on a MultiPolygon without coordinates is a TypeError
pointInGeometryRaises(geom) == geom.present /\ geom.type = "MultiPolygon" /\ ~geom.hasCoords

pointInGeometry(pt, geom) ==
    IF ~geom.present THEN FALSE
    ELSE IF geom.type = "Polygon" THEN pointInPolygon(pt, geom.hasCoords, geom.coordinates)
    ELSE IF geom.type = "MultiPolygon"
         THEN \E k \in 1 .. Len(geom.coordinates) : pointInPolygon(pt, TRUE, geom.coordinates[k])
    ELSE FALSE

\* results of the search
ResNull == [kind |-> "null", idx |-> 0]
ResParcel(i) == [kind |-> "parcel", idx |-> i]
ResRaise(i) == [kind |-> "raise", idx |-> i]

outsideBox(pt, bb) == pt[1] < bb[1] \/ pt[1] > bb[3] \/ pt[2] < bb[2] \/ pt[2] > bb[4]

\* the loop of findParcelFeatureAtLatLng from feature i on
RECURSIVE scanLoop(_, _, _)
scanLoop(pt, features, i) ==
    IF i > Len(features) THEN ResNull
    ELSE LET g == features[i].geometry
         IN  IF ~g.present THEN scanLoop(pt, features, i + 1)
             ELSE IF bboxRaises(g) THEN ResRaise(i)
             ELSE IF outsideBox(pt, bboxOfCoords(g)) THEN scanLoop(pt, features, i + 1)
             ELSE IF pointInGeometry(pt, g) THEN ResParcel(i)
             ELSE scanLoop(pt, features, i + 1)

\* a search that scans whatever the feature list holds, loaded or not
findParcelIgnoringLoaded(loaded, features, latlng) ==
    IF Len(features) = 0 THEN ResNull
    ELSE scanLoop(latLngToPoint(latlng), features, 1)

findParcelFeatureAtLatLng(loaded, features, latlng) ==
    IF ~loaded \/ Len(features) = 0 THEN ResNull
    ELSE scanLoop(latLngToPoint(latlng), features, 1)

----------------------------------------------------------------------------
(* The parcel identifier. *)

PropKeys == << "PARCEL_ID", "PARCELID", "PARCEL", "LOTPLAN", "LOT_PLAN", "LOT", "PLAN",
               "OBJECTID", "ObjectID", "ID", "Id" >>

\* an object's own entries, in insertion order
Entry(k, v) == [k |-> k, v |-> v]

\* props[key]
get(props, key) ==
    IF \E e \in 1 .. Len(props) : props[e].k = key
    THEN props[CHOOSE e \in 1 .. Len(props) : props[e].k = key].v
    ELSE Undefined

\* feature.properties || {}
propsOf(feature) == IF feature.hasProps THEN feature.props ELSE <<>>

\* the candidates array of getParcelId, before the filter
candidatesOf(feature) ==
    LET props == propsOf(feature)
    IN  << feature.id >> \o [k \in 1 .. Len(PropKeys) |-> get(props, PropKeys[k])]

\* the filter of getParcelId without the trim
keepCandidateUntrimmed(v) == v.t # "undefined" /\ v.t # "null" /\ StringOf(v) # <<>>

\* v !== undefined && v !== null && String(v).trim() !== ''
keepCandidate(v) == v.t # "undefined" /\ v.t # "null" /\ Trim(StringOf(v)) # <<>>

RECURSIVE filterCandidates(_)
filterCandidates(cs) ==
    IF cs = <<>> THEN <<>>
    ELSE IF keepCandidate(Head(cs)) THEN << Head(cs) >> \o filterCandidates(Tail(cs))
    ELSE filterCandidates(Tail(cs))

ParcelPrefix == << "p", "a", "r", "c", "e", "l", "_" >>

getParcelId(feature, index) ==
    LET candidates == filterCandidates(candidatesOf(feature))
    IN  IF Len(candidates) > 0 THEN StringOf(candidates[1])
        ELSE ParcelPrefix \o Digits(index)

----------------------------------------------------------------------------
(* Features and geometries the model draws its files from. *)

Geom(type, depth, coordinates) ==
    [present |-> TRUE, type |-> type, hasCoords |-> TRUE, depth |-> depth,
     coordinates |-> coordinates]

\* geometry: null
NoGeometry ==
    [present |-> FALSE, type |-> "", hasCoords |-> FALSE, depth |-> 0, coordinates |-> <<>>]

\* a geometry object with no coordinates member
GeomNoCoords(type) ==
    [present |-> TRUE, type |-> type, hasCoords |-> FALSE, depth |-> 0, coordinates |-> <<>>]

Rect(x1, y1, x2, y2) == << <<x1, y1>>, <<x1, y2>>, <<x2, y2>>, <<x2, y1>> >>
RectClosed(x1, y1, x2, y2) == Rect(x1, y1, x2, y2) \o << <<x1, y1>> >>

SquareWithHole == Geom("Polygon", 3, << RectClosed(0, 0, 6, 6), RectClosed(2, 2, 4, 4) >>)
EastRect == Geom("Polygon", 3, << Rect(4, 0, 7, 6) >>)
Triangle == Geom("Polygon", 3, << << <<0, 0>>, <<6, 0>>, <<0, 6>> >> >>)
TwoSquares ==
    Geom("MultiPolygon", 4, << << RectClosed(0, 0, 2, 2) >>, << RectClosed(4, 4, 6, 6) >> >>)
EmptyPolygon == Geom("Polygon", 3, <<>>)
EmptyRing == Geom("Polygon", 3, << <<>> >>)
PointGeom == Geom("Point", 1, <<3, 3>>)
LineGeom == Geom("LineString", 2, << <<0, 0>>, <<6, 6>> >>)
Collection == GeomNoCoords("GeometryCollection")
PolygonNoCoords == GeomNoCoords("Polygon")

\* the geometries a file's features are drawn from
Geometries ==
    << SquareWithHole, EastRect, Triangle, TwoSquares, EmptyPolygon, EmptyRing, PointGeom,
       LineGeom, Collection, NoGeometry, PolygonNoCoords >>

\* a raw feature of the file
Feature(id, hasProps, props, geometry) ==
    [id |-> id, hasProps |-> hasProps, props |-> props, note |-> Undefined,
     hasPid |-> FALSE, pid |-> <<>>, geometry |-> geometry]

Anonymous(geometry) == Feature(Undefined, FALSE, <<>>, geometry)

\* L.geoJSON builds a layer for the known geometry types, descends into a
\* GeometryCollection, skips a null geometry and throws on anything else,
\* also on a known type whose coordinates are missing
leafletAccepts(g) ==
    \/ ~g.present
    \/ g.type = "GeometryCollection"
    \/ g.type \in { "Point", "LineString", "Polygon", "MultiPolygon" } /\ g.hasCoords

\* Seq(S) up to length n
RECURSIVE SeqsUpTo(_, _)
SeqsUpTo(S, n) ==
    IF n = 0 THEN { <<>> }
    ELSE LET shorter == SeqsUpTo(S, n - 1)
         IN  shorter \cup { Append(q, e) : q \in { r \in shorter : Len(r) = n - 1 }, e \in S }

\* the map of loadCadastralOverlay: a copy of each feature carrying __pid
copyWithPid(f, i) == [f EXCEPT !.hasProps = TRUE, !.props = propsOf(f), !.hasPid = TRUE,
                               !.pid = getParcelId(f, i)]

buildFeatures(features) == [k \in 1 .. Len(features) |-> copyWithPid(features[k], k - 1)]

\* the features of the file whose geometries are numbered by q
fileOf(q) == [k \in 1 .. Len(q) |-> Anonymous(Geometries[q[k]])]

\* the geometries L.geoJSON accepts
Loadable == { k \in 1 .. Len(Geometries) : leafletAccepts(Geometries[k]) }

Coordinates == QMin .. GridMax

Pending == [kind |-> "pending", idx |-> 0]

----------------------------------------------------------------------------
(* The running application: the overlay load, the snap toggle, the          *)
(* draw-created handler and the two note popups with their Undo toasts.     *)

\* an object's entries after obj[key] = value
setEntry(obj, key, value) ==
    IF \E e \in 1 .. Len(obj) : obj[e].k = key
    THEN [e \in 1 .. Len(obj) |-> IF obj[e].k = key THEN Entry(key, value) ELSE obj[e]]
    ELSE Append(obj, Entry(key, value))

\* an object's entries after delete obj[key]
RECURSIVE deleteEntry(_, _)
deleteEntry(obj, key) ==
    IF obj = <<>> THEN <<>>
    ELSE IF Head(obj).k = key THEN deleteEntry(Tail(obj), key)
    ELSE << Head(obj) >> \o deleteEntry(Tail(obj), key)

\* localStorage: no item under the key, or the JSON document written there
NoItem == [present |-> FALSE, doc |-> <<>>]
Item(doc) == [present |-> TRUE, doc |-> doc]

\* JSON.parse(localStorage.getItem(CAD_NOTES_KEY) || '{}') || {}
loadParcelNotes(store) == IF store.present THEN store.doc ELSE <<>>

\* localStorage.setItem(CAD_NOTES_KEY, JSON.stringify(parcelNotes))
saveParcelNotes(notes) == Item(notes)

\* v || ''
orEmpty(v) == IF v.t = "string" /\ v.s # <<>> THEN v.s ELSE <<>>

\* the features of the application's files
AppFeatures ==
    << Anonymous(SquareWithHole),
       Anonymous(EastRect),
       Feature(Undefined, TRUE, << Entry("PARCEL_ID", Str(<< "7" >>)) >>, TwoSquares),
       Anonymous(Collection),
       Anonymous(PolygonNoCoords) >>

appFileOf(q) == [k \in 1 .. Len(q) |-> AppFeatures[q[k]]]

\* the shapes Leaflet.Draw hands to the created handler: a marker has
\* getLatLng, a rectangle has getBounds
Marker(lat, lng) == [kind |-> "marker", sw |-> << lat, lng >>, ne |-> << lat, lng >>]
Rectangle(sw, ne) == [kind |-> "rectangle", sw |-> sw, ne |-> ne]
ParcelShape == [kind |-> "parcel", sw |-> << 0, 0 >>, ne |-> << 0, 0 >>]

DrawShapes ==
    { Marker(1, 1), Marker(3, 3), Marker(QMin, QMin), Rectangle(<< 0, 4 >>, << 2, 6 >>) }

\* what the user may type into a note's textarea
NoteTexts == { << " " >>, << "a", " " >> }

\* layerCentroidLatLng: getLatLng(), else getBounds().getCenter()
layerCentroidLatLng(shape) ==
    IF shape.kind = "marker" THEN [lat |-> shape.sw[1], lng |-> shape.sw[2]]
    ELSE [lat |-> (shape.sw[1] + shape.ne[1]) \div 2, lng |-> (shape.sw[2] + shape.ne[2]) \div 2]

\* a layer of drawnItems: ref > 0 when layer.feature is the object
\* cadastralFeatures[ref] itself (L.geoJSON keeps the feature it is given),
\* otherwise the layer owns its feature and note is its properties.note
Layer(shape, ref) == [shape |-> shape, ref |-> ref, note |-> Undefined]

\* layer.feature.properties.note
noteOf(layer, features) == IF layer.ref > 0 THEN features[layer.ref].note ELSE layer.note

\* drawnItems.toGeoJSON(), as JSON.stringify writes it
toGeoJSON(layers, features) ==
    [k \in 1 .. Len(layers) |->
        [shape |-> layers[k].shape,
         pid |-> IF layers[k].ref > 0 THEN features[layers[k].ref].pid ELSE <<>>,
         note |-> noteOf(layers[k], features)]]

\* saveAllDrawings
saveAllDrawings(layers, features) == Item(toGeoJSON(layers, features))

\* a status line that does not ask map.hasLayer
statusTextIgnoringMap(loaded, layer) ==
    IF ~loaded THEN "Cadastral: not loaded" ELSE "Cadastral: loaded"

\* updateStatusControl
statusText(loaded, layer) ==
    IF ~loaded THEN "Cadastral: not loaded"
    ELSE IF ~layer.isNull /\ layer.onMap THEN "Cadastral: loaded"
    ELSE "Cadastral: hidden"

NullLayer == [isNull |-> TRUE, onMap |-> FALSE, wiring |-> <<>>]

\* onEachFeature: the pid each parcel layer's click handler is bound to
wiringOf(features) ==
    [k \in 1 .. Len(features) |->
        [hasLayer |-> features[k].geometry.present, pid |-> getParcelId(features[k], 0)]]

\* cadastralLayer = L.geoJSON(geojson, ...) added to the map
loadedLayer(features) == [isNull |-> FALSE, onMap |-> TRUE, wiring |-> wiringOf(features)]

NoPopup == [kind |-> "none", target |-> 0, pid |-> <<>>, previousNote |-> <<>>,
            held |-> Undefined, heldDoc |-> Undefined]

\* getParcelId not yet called
NoIdInput == [feature |-> Anonymous(NoGeometry), index |-> 0]

Idle == [op |-> "idle", shape |-> ParcelShape, snap |-> FALSE, kept |-> "", note |-> <<>>,
         undone |-> NoPopup]

\* the notes a previous session may have left under CAD_NOTES_KEY
StoredNotes ==
    { NoItem, Item(<< Entry(ParcelPrefix \o << "0" >>, Str(<< "b" >>)) >>) }

Init ==
    /\ ringInput = NoRingInput
    /\ ringOutput = NoRingOutput
    /\ \E q \in SeqsUpTo(1 .. Len(AppFeatures), MaxAppParcels) : rawFeatures = appFileOf(q)
    /\ loadPhase = "loading"
    /\ cadastralLoaded = FALSE
    /\ cadastralFeatures = <<>>
    /\ cadastralLayer = NullLayer
    /\ statusLine = "Cadastral: loading..."
    /\ snapEnabled = FALSE
    /\ notesStore \in StoredNotes
    /\ parcelNotes = loadParcelNotes(notesStore)
    /\ drawnItems = <<>>
    /\ drawingsStore = NoItem
    /\ popup = NoPopup
    /\ toasts = <<>>
    /\ lastEvent = Idle
    /\ query = [lat |-> 0, lng |-> 0]
    /\ found = Pending
    /\ idInput = NoIdInput
    /\ idOutput = <<>>

\* loadCadastralOverlay runs to its end and the .then callback follows
LoadSucceeds ==
    /\ loadPhase = "loading"
    /\ \A k \in 1 .. Len(rawFeatures) : leafletAccepts(rawFeatures[k].geometry)
    /\ cadastralFeatures' = buildFeatures(rawFeatures)
    /\ cadastralLayer' = loadedLayer(rawFeatures)
    /\ cadastralLoaded' = TRUE
    /\ statusLine' = statusText(cadastralLoaded', cadastralLayer')
    /\ loadPhase' = "loaded"
    /\ lastEvent' = Idle
    /\ UNCHANGED << rawFeatures, snapEnabled, parcelNotes, notesStore, drawnItems,
                    drawingsStore, popup, toasts, query, found, idInput, idOutput >>
    /\ UNCHANGED << ringInput, ringOutput >>

\* the fetch fails, the response is not ok or is no JSON: the .catch callback
FetchFails ==
    /\ loadPhase = "loading"
    /\ cadastralLoaded' = FALSE
    /\ statusLine' = statusText(cadastralLoaded', cadastralLayer)
    /\ loadPhase' = "failed"
    /\ lastEvent' = Idle
    /\ UNCHANGED << rawFeatures, cadastralFeatures, cadastralLayer, snapEnabled,
                    parcelNotes, notesStore, drawnItems, drawingsStore, popup, toasts,
                    query, found, idInput, idOutput >>
    /\ UNCHANGED << ringInput, ringOutput >>

\* L.geoJSON throws on a feature, after cadastralFeatures was assigned: the
\* .catch callback
LayerBuildFails ==
    /\ loadPhase = "loading"
    /\ \E k \in 1 .. Len(rawFeatures) : ~leafletAccepts(rawFeatures[k].geometry)
    /\ cadastralFeatures' = buildFeatures(rawFeatures)
    /\ cadastralLoaded' = FALSE
    /\ statusLine' = statusText(cadastralLoaded', cadastralLayer)
    /\ loadPhase' = "failed"
    /\ lastEvent' = Idle
    /\ UNCHANGED << rawFeatures, cadastralLayer, snapEnabled, parcelNotes, notesStore,
                    drawnItems, drawingsStore, popup, toasts, query, found, idInput,
                    idOutput >>
    /\ UNCHANGED << ringInput, ringOutput >>

\* snapEl.onchange
ToggleSnap ==
    /\ snapEnabled' = ~snapEnabled
    /\ lastEvent' = Idle
    /\ UNCHANGED << rawFeatures, loadPhase, cadastralLoaded, cadastralFeatures,
                    cadastralLayer, statusLine, parcelNotes, notesStore, drawnItems,
                    drawingsStore, popup, toasts, query, found, idInput, idOutput >>
    /\ UNCHANGED << ringInput, ringOutput >>

\* featureToEditableLeafletLayer: the first layer L.geoJSON builds for the
\* parcel, whose feature member is the object it was given
featureToEditableLeafletLayer(idx) == Layer(ParcelShape, idx)

\* the popupopen handler attachDrawingNoteUI registers on layer k
drawingPopup(layers, features, k) ==
    [kind |-> "drawing", target |-> k, pid |-> <<>>,
     previousNote |-> orEmpty(noteOf(layers[k], features)),
     held |-> noteOf(layers[k], features), heldDoc |-> Undefined]

\* what the created handler keeps: the parcel's layer when snap is on and a
\* Polygon or MultiPolygon parcel was found, the drawn layer otherwise
keptLayer(shape, snap, res, features) ==
    IF snap /\ res.kind = "parcel"
            /\ features[res.idx].geometry.type \in { "Polygon", "MultiPolygon" }
    THEN featureToEditableLeafletLayer(res.idx)
    ELSE Layer(shape, 0)

\* map.on(L.Draw.Event.CREATED): the search raising ends the handler before
\* the layer is added
Created(shape) ==
    LET centroid == layerCentroidLatLng(shape)
        res == IF snapEnabled
               THEN findParcelFeatureAtLatLng(cadastralLoaded, cadastralFeatures, centroid)
               ELSE Pending
        layer == keptLayer(shape, snapEnabled, res, cadastralFeatures)
    IN  /\ Len(drawnItems) < MaxDrawn
        /\ query' = centroid
        /\ found' = res
        /\ IF res.kind = "raise"
           THEN /\ lastEvent' = [Idle EXCEPT !.op = "created", !.shape = shape,
                                             !.snap = snapEnabled, !.kept = "none"]
                /\ UNCHANGED << drawnItems, drawingsStore, popup >>
           ELSE /\ drawnItems' = Append(drawnItems, layer)
                /\ drawingsStore' = saveAllDrawings(drawnItems', cadastralFeatures)
                /\ popup' = drawingPopup(drawnItems', cadastralFeatures, Len(drawnItems'))
                /\ lastEvent' = [Idle EXCEPT !.op = "created", !.shape = shape,
                                             !.snap = snapEnabled,
                                             !.kept = IF layer.ref > 0 THEN "snapped"
                                                      ELSE "drawn"]
        /\ UNCHANGED << rawFeatures, loadPhase, cadastralLoaded, cadastralFeatures,
                        cadastralLayer, statusLine, snapEnabled, parcelNotes, notesStore,
                        toasts, idInput, idOutput >>
        /\ UNCHANGED << ringInput, ringOutput >>

\* a click on layer k of drawnItems opens its popup
OpenDrawingPopup(k) ==
    /\ k \in 1 .. Len(drawnItems)
    /\ popup' = drawingPopup(drawnItems, cadastralFeatures, k)
    /\ lastEvent' = Idle
    /\ UNCHANGED << rawFeatures, loadPhase, cadastralLoaded, cadastralFeatures,
                    cadastralLayer, statusLine, snapEnabled, parcelNotes, notesStore,
                    drawnItems, drawingsStore, toasts, query, found, idInput, idOutput >>
    /\ UNCHANGED << ringInput, ringOutput >>

\* btnCancel.onclick, or the popup is closed
ClosePopup ==
    /\ popup.kind # "none"
    /\ popup' = NoPopup
    /\ lastEvent' = Idle
    /\ UNCHANGED << rawFeatures, loadPhase, cadastralLoaded, cadastralFeatures,
                    cadastralLayer, statusLine, snapEnabled, parcelNotes, notesStore,
                    drawnItems, drawingsStore, toasts, query, found, idInput, idOutput >>
    /\ UNCHANGED << ringInput, ringOutput >>

\* layer.feature.properties.note = value, on the layers and the features
layersAfterNote(layers, k, value) ==
    IF layers[k].ref > 0 THEN layers ELSE [layers EXCEPT ![k].note = value]

featuresAfterNote(layers, features, k, value) ==
    IF layers[k].ref > 0 THEN [features EXCEPT ![layers[k].ref].note = value] ELSE features

\* btnSave.onclick of a drawing's popup
SaveDrawingNote(text) ==
    /\ popup.kind = "drawing"
    /\ Len(toasts) < MaxToasts
    /\ LET newNote == Str(Trim(text))
       IN  /\ drawnItems' = layersAfterNote(drawnItems, popup.target, newNote)
           /\ cadastralFeatures' =
                  featuresAfterNote(drawnItems, cadastralFeatures, popup.target, newNote)
    /\ drawingsStore' = saveAllDrawings(drawnItems', cadastralFeatures')
    /\ toasts' = Append(toasts, popup)
    /\ popup' = NoPopup
    /\ lastEvent' = [Idle EXCEPT !.op = "drawingSave"]
    /\ UNCHANGED << rawFeatures, loadPhase, cadastralLoaded, cadastralLayer, statusLine,
                    snapEnabled, parcelNotes, notesStore, query, found, idInput, idOutput >>
    /\ UNCHANGED << ringInput, ringOutput >>

removeAt(q, t) == SubSeq(q, 1, t - 1) \o SubSeq(q, t + 1, Len(q))

\* the Undo button of the toast of a drawing-note save
UndoDrawingNote(t) ==
    /\ t \in 1 .. Len(toasts)
    /\ toasts[t].kind = "drawing"
    /\ LET previousNote == Str(toasts[t].previousNote)
       IN  /\ drawnItems' = layersAfterNote(drawnItems, toasts[t].target, previousNote)
           /\ cadastralFeatures' =
                  featuresAfterNote(drawnItems, cadastralFeatures, toasts[t].target,
                                    previousNote)
    /\ drawingsStore' = saveAllDrawings(drawnItems', cadastralFeatures')
    /\ toasts' = removeAt(toasts, t)
    /\ lastEvent' = [Idle EXCEPT !.op = "drawingUndo", !.undone = toasts[t]]
    /\ UNCHANGED << rawFeatures, loadPhase, cadastralLoaded, cadastralLayer, statusLine,
                    snapEnabled, parcelNotes, notesStore, popup, query, found, idInput,
                    idOutput >>
    /\ UNCHANGED << ringInput, ringOutput >>

\* a toast closes, by its timer or its close button
CloseToast(t) ==
    /\ t \in 1 .. Len(toasts)
    /\ toasts' = removeAt(toasts, t)
    /\ lastEvent' = Idle
    /\ UNCHANGED << rawFeatures, loadPhase, cadastralLoaded, cadastralFeatures,
                    cadastralLayer, statusLine, snapEnabled, parcelNotes, notesStore,
                    drawnItems, drawingsStore, popup, query, found, idInput, idOutput >>
    /\ UNCHANGED << ringInput, ringOutput >>

\* the popupopen handler of openParcelNote for the parcel layer of feature i,
\* bound to the pid onEachFeature gave that layer
OpenParcelNote(i) ==
    /\ ~cadastralLayer.isNull
    /\ cadastralLayer.onMap
    /\ i \in 1 .. Len(cadastralLayer.wiring)
    /\ cadastralLayer.wiring[i].hasLayer
    /\ LET pid == cadastralLayer.wiring[i].pid
       IN  popup' = [kind |-> "parcel", target |-> i, pid |-> pid,
                     previousNote |-> orEmpty(get(parcelNotes, pid)),
                     held |-> get(parcelNotes, pid),
                     heldDoc |-> get(loadParcelNotes(notesStore), pid)]
    /\ lastEvent' = Idle
    /\ UNCHANGED << rawFeatures, loadPhase, cadastralLoaded, cadastralFeatures,
                    cadastralLayer, statusLine, snapEnabled, parcelNotes, notesStore,
                    drawnItems, drawingsStore, toasts, query, found, idInput, idOutput >>
    /\ UNCHANGED << ringInput, ringOutput >>

\* parcelNotes[pid] = note, whatever the note
notesAfterAlwaysSet(notes, pid, note) == setEntry(notes, pid, Str(note))

\* if (note) parcelNotes[pid] = note; else delete parcelNotes[pid]
notesAfter(notes, pid, note) ==
    IF note # <<>> THEN setEntry(notes, pid, Str(note)) ELSE deleteEntry(notes, pid)

\* btnSave.onclick of a parcel's popup
SaveParcelNote(text) ==
    /\ popup.kind = "parcel"
    /\ Len(toasts) < MaxToasts
    /\ parcelNotes' = notesAfter(parcelNotes, popup.pid, Trim(text))
    /\ notesStore' = saveParcelNotes(parcelNotes')
    /\ toasts' = Append(toasts, popup)
    /\ popup' = NoPopup
    /\ lastEvent' = [Idle EXCEPT !.op = "parcelSave", !.note = Trim(text), !.undone = popup]
    /\ UNCHANGED << rawFeatures, loadPhase, cadastralLoaded, cadastralFeatures,
                    cadastralLayer, statusLine, snapEnabled, drawnItems, drawingsStore,
                    query, found, idInput, idOutput >>
    /\ UNCHANGED << ringInput, ringOutput >>

\* the Undo button of the toast of a parcel-note save
UndoParcelNote(t) ==
    /\ t \in 1 .. Len(toasts)
    /\ toasts[t].kind = "parcel"
    /\ parcelNotes' = notesAfter(parcelNotes, toasts[t].pid, toasts[t].previousNote)
    /\ notesStore' = saveParcelNotes(parcelNotes')
    /\ toasts' = removeAt(toasts, t)
    /\ lastEvent' = [Idle EXCEPT !.op = "parcelUndo", !.undone = toasts[t]]
    /\ UNCHANGED << rawFeatures, loadPhase, cadastralLoaded, cadastralFeatures,
                    cadastralLayer, statusLine, snapEnabled, drawnItems, drawingsStore,
                    popup, query, found, idInput, idOutput >>
    /\ UNCHANGED << ringInput, ringOutput >>

\* the user unticks the overlay in the layers control: the layer leaves the
\* map, the popup of a parcel layer closes with it, and the overlayremove
\* handler the .then callback registered runs updateStatusControl
OverlayRemove ==
    /\ loadPhase = "loaded"
    /\ ~cadastralLayer.isNull
    /\ cadastralLayer.onMap
    /\ cadastralLayer' = [cadastralLayer EXCEPT !.onMap = FALSE]
    /\ statusLine' = statusText(cadastralLoaded, cadastralLayer')
    /\ popup' = IF popup.kind = "parcel" THEN NoPopup ELSE popup
    /\ lastEvent' = Idle
    /\ UNCHANGED << rawFeatures, loadPhase, cadastralLoaded, cadastralFeatures,
                    snapEnabled, parcelNotes, notesStore, drawnItems, drawingsStore,
                    toasts, query, found, idInput, idOutput >>
    /\ UNCHANGED << ringInput, ringOutput >>

\* the user ticks the overlay again: the overlayadd handler runs
\* updateStatusControl
OverlayAdd ==
    /\ loadPhase = "loaded"
    /\ ~cadastralLayer.isNull
    /\ ~cadastralLayer.onMap
    /\ cadastralLayer' = [cadastralLayer EXCEPT !.onMap = TRUE]
    /\ statusLine' = statusText(cadastralLoaded, cadastralLayer')
    /\ lastEvent' = Idle
    /\ UNCHANGED << rawFeatures, loadPhase, cadastralLoaded, cadastralFeatures,
                    snapEnabled, parcelNotes, notesStore, drawnItems, drawingsStore,
                    popup, toasts, query, found, idInput, idOutput >>
    /\ UNCHANGED << ringInput, ringOutput >>

Next ==
    \/ LoadSucceeds
    \/ FetchFails
    \/ LayerBuildFails
    \/ OverlayRemove
    \/ OverlayAdd
    \/ ToggleSnap
    \/ \E shape \in DrawShapes : Created(shape)
    \/ \E k \in 1 .. MaxDrawn : OpenDrawingPopup(k)
    \/ ClosePopup
    \/ \E text \in NoteTexts : SaveDrawingNote(text)
    \/ \E t \in 1 .. MaxToasts : UndoDrawingNote(t)
    \/ \E t \in 1 .. MaxToasts : CloseToast(t)
    \/ \E i \in 1 .. MaxAppParcels : OpenParcelNote(i)
    \/ \E text \in NoteTexts : SaveParcelNote(text)
    \/ \E t \in 1 .. MaxToasts : UndoParcelNote(t)

Spec == Init /\ [][Next]_vars

\* the overlay load and the parcel notes alone
NextNotes ==
    \/ LoadSucceeds
    \/ FetchFails
    \/ LayerBuildFails
    \/ ClosePopup
    \/ \E t \in 1 .. MaxToasts : CloseToast(t)
    \/ \E i \in 1 .. MaxAppParcels : OpenParcelNote(i)
    \/ \E text \in NoteTexts : SaveParcelNote(text)
    \/ \E t \in 1 .. MaxToasts : UndoParcelNote(t)

SpecNotes == Init /\ [][NextNotes]_vars

\* the overlay load, the layers control and the snap toggle alone
NextOverlay ==
    \/ LoadSucceeds
    \/ FetchFails
    \/ LayerBuildFails
    \/ OverlayRemove
    \/ OverlayAdd
    \/ ToggleSnap

SpecOverlay == Init /\ [][NextOverlay]_vars

\* the overlay load, the snap toggle and the draw-created events alone: the
\* awaits of the load (fetch, res.json) assign nothing, so the events that
\* arrive during them meet the initial state
NextDraw ==
    \/ LoadSucceeds
    \/ FetchFails
    \/ LayerBuildFails
    \/ ToggleSnap
    \/ \E shape \in DrawShapes : Created(shape)

SpecDraw == Init /\ [][NextDraw]_vars

----------------------------------------------------------------------------
(* The parcel search on a loaded overlay: every file L.geoJSON accepts, every *)
(* query point of the grid.                                                   *)

InitSearch ==
    /\ ringInput = NoRingInput
    /\ ringOutput = NoRingOutput
    /\ \E q \in SeqsUpTo(Loadable, MaxParcels) : rawFeatures = fileOf(q)
    /\ loadPhase = "loaded"
    /\ cadastralLoaded = TRUE
    /\ cadastralFeatures = buildFeatures(rawFeatures)
    /\ cadastralLayer = loadedLayer(rawFeatures)
    /\ statusLine = statusText(cadastralLoaded, cadastralLayer)
    /\ snapEnabled = TRUE
    /\ parcelNotes = <<>>
    /\ notesStore = NoItem
    /\ drawnItems = <<>>
    /\ drawingsStore = NoItem
    /\ popup = NoPopup
    /\ toasts = <<>>
    /\ lastEvent = Idle
    /\ \E lat \in Coordinates, lng \in Coordinates : query = [lat |-> lat, lng |-> lng]
    /\ found = Pending
    /\ idInput = NoIdInput
    /\ idOutput = <<>>

\* findParcelFeatureAtLatLng(query)
Search ==
    /\ found = Pending
    /\ found' = findParcelFeatureAtLatLng(cadastralLoaded, cadastralFeatures, query)
    /\ UNCHANGED << rawFeatures, loadPhase, cadastralLoaded, cadastralFeatures,
                    cadastralLayer, statusLine, snapEnabled, parcelNotes, notesStore,
                    drawnItems, drawingsStore, popup, toasts, lastEvent, query, idInput,
                    idOutput >>
    /\ UNCHANGED << ringInput, ringOutput >>

NextSearch == Search

SpecSearch == InitSearch /\ [][NextSearch]_vars

----------------------------------------------------------------------------
(* The parcel identifier as a function of a feature and its position.       *)

\* what a property of a feature may hold
PropValues == { Null, Str(<< " " >>), Str(<< "7" >>), Num(0) }

\* what feature.id may hold
IdValues == { Undefined, Null, Str(<<>>), Str(<< " ", "a", " " >>), Num(5) }

\* the entries of the keys K (positions in PropKeys) with the values f, in key order
RECURSIVE entriesOf(_, _)
entriesOf(K, f) ==
    IF K = {} THEN <<>>
    ELSE LET k == CHOOSE x \in K : \A y \in K : x <= y
         IN  << Entry(PropKeys[k], f[k]) >> \o entriesOf(K \ { k }, f)

InitId ==
    /\ ringInput = NoRingInput
    /\ ringOutput = NoRingOutput
    /\ \E K \in { S \in SUBSET (1 .. Len(PropKeys)) : Cardinality(S) <= MaxSetKeys } :
       \E f \in [K -> PropValues] :
       \E id \in IdValues, index \in 0 .. MaxIndex, hasProps \in BOOLEAN :
           /\ hasProps \/ K = {}
           /\ idInput = [feature |-> Feature(id, hasProps, entriesOf(K, f), NoGeometry),
                         index |-> index]
    /\ idOutput = <<>>
    /\ rawFeatures = <<>>
    /\ loadPhase = "loading"
    /\ cadastralLoaded = FALSE
    /\ cadastralFeatures = <<>>
    /\ cadastralLayer = NullLayer
    /\ statusLine = "Cadastral: loading..."
    /\ snapEnabled = FALSE
    /\ parcelNotes = <<>>
    /\ notesStore = NoItem
    /\ drawnItems = <<>>
    /\ drawingsStore = NoItem
    /\ popup = NoPopup
    /\ toasts = <<>>
    /\ lastEvent = Idle
    /\ query = [lat |-> 0, lng |-> 0]
    /\ found = Pending

\* getParcelId(feature, index)
DeriveId ==
    /\ idOutput = <<>>
    /\ idOutput' = getParcelId(idInput.feature, idInput.index)
    /\ UNCHANGED << rawFeatures, loadPhase, cadastralLoaded, cadastralFeatures,
                    cadastralLayer, statusLine, snapEnabled, parcelNotes, notesStore,
                    drawnItems, drawingsStore, popup, toasts, lastEvent, query, found,
                    idInput >>
    /\ UNCHANGED << ringInput, ringOutput >>

NextId == DeriveId

SpecId == InitId /\ [][NextId]_vars

----------------------------------------------------------------------------
(* pointInRing as a function of a point and a ring: every ring of up to     *)
(* MaxRing vertices of the vertex grid, stored with or without the repeat   *)
(* of its first vertex, and every point of the grid around them.            *)

RingVertices == { << 3 * a, 3 * b >> : a, b \in 0 .. RingMax }

RingPoints == { << x, y >> : x, y \in QMin .. 3 * RingMax }

\* the denominators put in the place of 1e-12
Substitutes == ((0 - SubMax) .. SubMax) \ { 0 }

\* the ring literal with a repeat of its first vertex at the end
closeRing(ring) == IF ring = <<>> THEN ring ELSE Append(ring, ring[1])

\* (yi > y) !== (yj > y)
crossing(pt, vi, vj) == (vi[2] > pt[2]) # (vj[2] > pt[2])

\* x < (xj - xi) * (y - yi) / ((yj - yi) || s) + xi
rayLeftOfEdgeWith(x, y, xi, yi, xj, yj, s) ==
    LET n == (xj - xi) * (y - yi)
        d == IF yj - yi # 0 THEN yj - yi ELSE s
    IN  IF d > 0 THEN (x - xi) * d < n ELSE (x - xi) * d > n

intersectWith(pt, vi, vj, s) ==
    crossing(pt, vi, vj)
        /\ rayLeftOfEdgeWith(pt[1], pt[2], vi[1], vi[2], vj[1], vj[2], s)

RECURSIVE ringLoopWith(_, _, _, _, _, _)
ringLoopWith(pt, ring, i, j, inside, s) ==
    IF i > Len(ring) THEN inside
    ELSE ringLoopWith(pt, ring, i + 1, i,
                      IF intersectWith(pt, ring[i], ring[j], s) THEN ~inside ELSE inside, s)

\* pointInRing with the denominator s in the place of 1e-12
pointInRingWith(pt, ring, s) == ringLoopWith(pt, ring, 1, Len(ring), FALSE, s)

\* j of the loop for index i
previous(ring, i) == IF i = 1 THEN Len(ring) ELSE i - 1

\* the edges of the loop whose ends have the same y
levelEdges(ring) == { i \in 1 .. Len(ring) : ring[i][2] = ring[previous(ring, i)][2] }

InitRing ==
    /\ \E ring \in SeqsUpTo(RingVertices, MaxRing), pt \in RingPoints :
           ringInput = [pt |-> pt, ring |-> ring]
    /\ ringOutput = NoRingOutput
    /\ idInput = NoIdInput
    /\ idOutput = <<>>
    /\ rawFeatures = <<>>
    /\ loadPhase = "loading"
    /\ cadastralLoaded = FALSE
    /\ cadastralFeatures = <<>>
    /\ cadastralLayer = NullLayer
    /\ statusLine = "Cadastral: loading..."
    /\ snapEnabled = FALSE
    /\ parcelNotes = <<>>
    /\ notesStore = NoItem
    /\ drawnItems = <<>>
    /\ drawingsStore = NoItem
    /\ popup = NoPopup
    /\ toasts = <<>>
    /\ lastEvent = Idle
    /\ query = [lat |-> 0, lng |-> 0]
    /\ found = Pending

\* pointInRing(pt, ring), on the ring as given, on the ring with its first
\* vertex repeated, and with other denominators in the place of 1e-12
TestRing ==
    /\ ~ringOutput.done
    /\ LET pt == ringInput.pt
           ring == ringInput.ring
       IN  ringOutput' =
               [done |-> TRUE,
                asGiven |-> pointInRing(pt, ring),
                closed |-> pointInRing(pt, closeRing(ring)),
                substituted |-> { pointInRingWith(pt, ring, s) : s \in Substitutes },
                levelEdgeFlips |->
                    \E i \in levelEdges(ring) :
                        intersect(pt, ring[i], ring[previous(ring, i)]),
                guardUsed |->
                    \E i \in levelEdges(ring) :
                        crossing(pt, ring[i], ring[previous(ring, i)])]
    /\ UNCHANGED << rawFeatures, loadPhase, cadastralLoaded, cadastralFeatures,
                    cadastralLayer, statusLine, snapEnabled, parcelNotes, notesStore,
                    drawnItems, drawingsStore, popup, toasts, lastEvent, query, found,
                    idInput, idOutput, ringInput >>

NextRing == TestRing

SpecRing == InitRing /\ [][NextRing]_vars

----------------------------------------------------------------------------
(* Plane geometry the claims are stated in: the winding number of a ring    *)
(* around a point and the point's lying on the ring.                        *)

isLeft(a, b, p) == (b[1] - a[1]) * (p[2] - a[2]) - (p[1] - a[1]) * (b[2] - a[2])

onSegment(p, a, b) ==
    /\ isLeft(a, b, p) = 0
    /\ Min2(a[1], b[1]) <= p[1] /\ p[1] <= Max2(a[1], b[1])
    /\ Min2(a[2], b[2]) <= p[2] /\ p[2] <= Max2(a[2], b[2])

nextVertex(ring, k) == ring[(k % Len(ring)) + 1]

onRing(p, ring) == \E k \in 1 .. Len(ring) : onSegment(p, ring[k], nextVertex(ring, k))

windingStep(p, a, b) ==
    IF a[2] <= p[2]
    THEN IF b[2] > p[2] /\ isLeft(a, b, p) > 0 THEN 1 ELSE 0
    ELSE IF b[2] <= p[2] /\ isLeft(a, b, p) < 0 THEN 0 - 1 ELSE 0

RECURSIVE windingFrom(_, _, _)
windingFrom(p, ring, k) ==
    IF k > Len(ring) THEN 0
    ELSE windingStep(p, ring[k], nextVertex(ring, k)) + windingFrom(p, ring, k + 1)

strictlyInside(p, ring) == ~onRing(p, ring) /\ windingFrom(p, ring, 1) # 0
strictlyOutside(p, ring) == ~onRing(p, ring) /\ windingFrom(p, ring, 1) = 0

queryPoint == << query.lng, query.lat >>

searched == found # Pending

\* parcel i is a Polygon and the point is strictly inside its ring 0 and
\* strictly outside each of its holes
insideParcel(p, i) ==
    LET g == cadastralFeatures[i].geometry
    IN  /\ g.present /\ g.type = "Polygon" /\ g.hasCoords /\ Len(g.coordinates) > 0
        /\ strictlyInside(p, g.coordinates[1])
        /\ \A h \in 2 .. Len(g.coordinates) : strictlyOutside(p, g.coordinates[h])

\* the parcels whose geometry test the point passes
containing(p) ==
    { i \in 1 .. Len(cadastralFeatures) : pointInGeometry(p, cadastralFeatures[i].geometry) }

firstOf(S) == CHOOSE i \in S : \A j \in S : i <= j

\* C1 as stated: on a loaded parcel set, a query point strictly inside a
\* parcel's outer ring and outside all of its holes makes the search return
\* that parcel.
C1_InsideReturnsThatParcel ==
    searched =>
        \A i \in 1 .. Len(cadastralFeatures) :
            insideParcel(queryPoint, i) => found = ResParcel(i)

\* C1 as amended: for such a point the search never answers null and never
\* answers a later parcel; what it returns is the first parcel in feature
\* order whose geometry contains the point (that parcel unless an earlier one
\* overlaps it), and it can only fail to return by raising on an earlier
\* record whose geometry has no coordinates array.
C1_InsideReturnsFirstContaining ==
    searched =>
        \A i \in 1 .. Len(cadastralFeatures) :
            insideParcel(queryPoint, i) =>
                /\ i \in containing(queryPoint)
                /\ found # ResNull
                /\ found.kind = "parcel" =>
                       found.idx <= i /\ found.idx = firstOf(containing(queryPoint))
                /\ found.kind = "raise" =>
                       found.idx < i /\ ~cadastralFeatures[found.idx].geometry.hasCoords

\* a point inside the second parcel only, which the search returns
C1_Witness ==
    /\ searched
    /\ Len(cadastralFeatures) = 2
    /\ insideParcel(queryPoint, 2)
    /\ ~insideParcel(queryPoint, 1)
    /\ found = ResParcel(2)

\* the outer/hole rule for one polygon's rings
ruleForPolygon(p, rings) ==
    /\ Len(rings) > 0
    /\ pointInRing(p, rings[1])
    /\ \A h \in 2 .. Len(rings) : ~pointInRing(p, rings[h])

\* the outer/hole rule for a geometry
ruleContains(p, g) ==
    /\ g.present
    /\ g.hasCoords
    /\ \/ g.type = "Polygon" /\ ruleForPolygon(p, g.coordinates)
       \/ g.type = "MultiPolygon"
            /\ \E m \in 1 .. Len(g.coordinates) : ruleForPolygon(p, g.coordinates[m])

\* the point is inside a hole of parcel i, a Polygon
inHoleOf(p, i) ==
    LET g == cadastralFeatures[i].geometry
    IN  /\ g.present /\ g.type = "Polygon" /\ g.hasCoords
        /\ \E h \in 2 .. Len(g.coordinates) : pointInRing(p, g.coordinates[h])

\* C2: containment follows the outer/hole rule: a Polygon contains the point
\* iff pointInRing holds for ring 0 and for no ring 1..n, a MultiPolygon iff
\* some member polygon does, any other geometry never; the search returns only
\* a parcel that contains the point under this rule, so a point inside a hole
\* of parcel A and inside no other parcel yields no parcel.
C2_OuterHoleRule ==
    searched =>
        /\ \A i \in 1 .. Len(cadastralFeatures) :
               LET g == cadastralFeatures[i].geometry
               IN  ~pointInGeometryRaises(g) =>
                       (pointInGeometry(queryPoint, g) <=> ruleContains(queryPoint, g))
        /\ found.kind = "parcel" =>
               ruleContains(queryPoint, cadastralFeatures[found.idx].geometry)
        /\ \A a \in 1 .. Len(cadastralFeatures) :
               (/\ inHoleOf(queryPoint, a)
                /\ \A b \in 1 .. Len(cadastralFeatures) :
                       b # a => ~ruleContains(queryPoint, cadastralFeatures[b].geometry))
                   => found.kind # "parcel"

\* a point in the hole of a parcel, inside its outer ring, for which the
\* search answered null
C2_Witness ==
    /\ searched
    /\ \E a \in 1 .. Len(cadastralFeatures) :
           /\ inHoleOf(queryPoint, a)
           /\ pointInRing(queryPoint, cadastralFeatures[a].geometry.coordinates[1])
    /\ found = ResNull

\* C3: the search returns the parcel with the smallest index whose geometry
\* contains the point, and null exactly when no parcel's geometry contains it.
C3_FirstMatchOrNull ==
    searched =>
        found = IF containing(queryPoint) = {} THEN ResNull
                ELSE ResParcel(firstOf(containing(queryPoint)))

\* the scan of findParcelFeatureAtLatLng with the bounding-box test removed
RECURSIVE scanWithoutBox(_, _, _)
scanWithoutBox(pt, features, i) ==
    IF i > Len(features) THEN ResNull
    ELSE LET g == features[i].geometry
         IN  IF ~g.present THEN scanWithoutBox(pt, features, i + 1)
             ELSE IF pointInGeometryRaises(g) THEN ResRaise(i)
             ELSE IF pointInGeometry(pt, g) THEN ResParcel(i)
             ELSE scanWithoutBox(pt, features, i + 1)

\* C4: the bounding-box rejection is a pure short-circuit: the search returns
\* what the same scan without the bounding-box test returns, and no point
\* outside a parcel's bounding box passes that parcel's pointInGeometry test.
C4_BoxIsPureShortCircuit ==
    searched =>
        /\ found = IF ~cadastralLoaded \/ Len(cadastralFeatures) = 0 THEN ResNull
                   ELSE scanWithoutBox(queryPoint, cadastralFeatures, 1)
        /\ \A i \in 1 .. Len(cadastralFeatures) :
               LET g == cadastralFeatures[i].geometry
               IN  (g.present /\ g.hasCoords /\ outsideBox(queryPoint, bboxOfCoords(g)))
                       => ~pointInGeometry(queryPoint, g)

\* a record that can never match: no geometry, no coordinates array, empty
\* coordinates, an empty ring, or a type other than Polygon and MultiPolygon
malformed(g) ==
    \/ ~g.present
    \/ ~g.hasCoords
    \/ g.coordinates = <<>>
    \/ g.type \notin { "Polygon", "MultiPolygon" }
    \/ g.type = "Polygon" /\ \E r \in 1 .. Len(g.coordinates) : g.coordinates[r] = <<>>

\* C5: the search is total: whatever the records are, it returns a parcel or
\* null and never raises, and a malformed record is never the one returned.
C5_SearchIsTotal ==
    searched =>
        /\ found.kind \in { "parcel", "null" }
        /\ found.kind = "parcel" => ~malformed(cadastralFeatures[found.idx].geometry)

----------------------------------------------------------------------------
(* The claims. *)

\* the candidates in the order the claim lists them, feature.id first
claimedCandidates(feature) ==
    LET p == IF feature.hasProps THEN feature.props ELSE <<>>
    IN  << feature.id, get(p, "PARCEL_ID"), get(p, "PARCELID"), get(p, "PARCEL"),
           get(p, "LOTPLAN"), get(p, "LOT_PLAN"), get(p, "LOT"), get(p, "PLAN"),
           get(p, "OBJECTID"), get(p, "ObjectID"), get(p, "ID"), get(p, "Id") >>

qualifies(v) == v # Undefined /\ v # Null /\ Trim(StringOf(v)) # <<>>

\* C8: getParcelId returns the string form of the first candidate, in the
\* order feature.id, PARCEL_ID, PARCELID, PARCEL, LOTPLAN, LOT_PLAN, LOT, PLAN,
\* OBJECTID, ObjectID, ID, Id, that is neither undefined nor null nor empty
\* after trimming, and "parcel_<i>" when no candidate qualifies.
C8_FirstQualifyingCandidate ==
    idOutput # <<>> =>
        LET c == claimedCandidates(idInput.feature)
            Q == { k \in 1 .. Len(c) : qualifies(c[k]) }
        IN  idOutput = IF Q = {} THEN ParcelPrefix \o Digits(idInput.index)
                       ELSE StringOf(c[firstOf(Q)])

\* a blank LOT is passed over and PLAN gives the identifier
C8_Witness ==
    /\ idOutput = << "7" >>
    /\ idInput.feature.id = Null
    /\ get(idInput.feature.props, "LOT") = Str(<< " " >>)
    /\ get(idInput.feature.props, "PLAN") = Str(<< "7" >>)


\* the representative point of a drawn shape: a marker's coordinate, else
\* the centre of its bounds
representativePoint(shape) ==
    IF shape.kind = "marker" THEN [lat |-> shape.sw[1], lng |-> shape.sw[2]]
    ELSE [lat |-> (shape.sw[1] + shape.ne[1]) \div 2, lng |-> (shape.sw[2] + shape.ne[2]) \div 2]

\* snap was on, the search found a parcel and the parcel is an area geometry
snapApplies ==
    /\ lastEvent.snap
    /\ found.kind = "parcel"
    /\ cadastralFeatures[found.idx].geometry.type \in { "Polygon", "MultiPolygon" }

\* C6: on a draw-created event the new shape is replaced by the parcel's
\* geometry iff snap is enabled, the search finds a parcel at the shape's
\* representative point and that parcel is a Polygon or MultiPolygon; in every
\* other case the originally drawn shape is the one kept.
C6_SnapIffParcelFound ==
    lastEvent.op = "created" =>
        /\ query = representativePoint(lastEvent.shape)
        /\ lastEvent.kept = "snapped" <=> snapApplies
        /\ snapApplies =>
               drawnItems[Len(drawnItems)] = [shape |-> ParcelShape, ref |-> found.idx,
                                              note |-> Undefined]
        /\ ~snapApplies =>
               /\ lastEvent.kept = "drawn"
               /\ Len(drawnItems) > 0
               /\ drawnItems[Len(drawnItems)] = [shape |-> lastEvent.shape, ref |-> 0,
                                                 note |-> Undefined]

\* C7: the parcel index is read-only after load: whatever draw-created
\* events, drawing-note saves and undos and parcel-note saves and undos
\* follow, every entry of cadastralFeatures is what the load made it.
C7_IndexReadOnlyAfterLoad ==
    loadPhase = "loaded" => cadastralFeatures = buildFeatures(rawFeatures)

\* feature i carries none of the identifying members
anonymous(i) ==
    \A k \in 1 .. Len(claimedCandidates(rawFeatures[i])) :
        ~qualifies(claimedCandidates(rawFeatures[i])[k])

\* C9: for every feature at position i, the pid its overlay layer reads and
\* writes the note under equals the __pid stored for it in the search index,
\* so two features at different positions with no identifying properties
\* never share a note key.
C9_WiredPidIsIndexPid ==
    loadPhase = "loaded" =>
        /\ \A i \in 1 .. Len(cadastralFeatures) :
               cadastralLayer.wiring[i].hasLayer =>
                   cadastralLayer.wiring[i].pid = cadastralFeatures[i].pid
        /\ \A i, j \in 1 .. Len(cadastralFeatures) :
               (/\ i # j
                /\ cadastralLayer.wiring[i].hasLayer /\ cadastralLayer.wiring[j].hasLayer
                /\ anonymous(i) /\ anonymous(j))
                   => cadastralLayer.wiring[i].pid # cadastralLayer.wiring[j].pid

noEmptyNote(notes) == \A e \in 1 .. Len(notes) : notes[e].v # Str(<<>>)

\* C10: parcel-note Save followed by its toast's Undo is a round trip: after
\* the Undo, parcelNotes and the document under cadastral_parcel_notes_v1 hold
\* for the pid what they held when the popup was opened (nothing if there was
\* no note); saving an empty trimmed note removes the key, and neither save
\* nor undo ever maps a pid to the empty string.
C10_SaveUndoRoundTrip ==
    /\ lastEvent.op = "parcelUndo" =>
           /\ get(parcelNotes, lastEvent.undone.pid) = lastEvent.undone.held
           /\ notesStore.present
           /\ get(notesStore.doc, lastEvent.undone.pid) = lastEvent.undone.heldDoc
    /\ lastEvent.op = "parcelSave" =>
           /\ get(parcelNotes, lastEvent.undone.pid) =
                  IF lastEvent.note = <<>> THEN Undefined ELSE Str(lastEvent.note)
           /\ notesStore = Item(parcelNotes)
    /\ noEmptyNote(parcelNotes)
    /\ noEmptyNote(notesStore.doc)

\* an Undo that brought back the note "b" a save had replaced or removed
C10_Witness ==
    /\ lastEvent.op = "parcelUndo"
    /\ lastEvent.undone.held = Str(<< "b" >>)
    /\ get(parcelNotes, lastEvent.undone.pid) = Str(<< "b" >>)
    /\ get(notesStore.doc, lastEvent.undone.pid) = Str(<< "b" >>)

----------------------------------------------------------------------------
(* C11: the status line tracks the overlay: it reads 'Cadastral: loading...' *)
(* until the load settles; once the load has succeeded, and after every     *)
(* overlay add or remove that follows, it reads 'Cadastral: loaded' exactly *)
(* when the cadastral layer is on the map and 'Cadastral: hidden' exactly   *)
(* when it is not; after a failed load it reads 'Cadastral: not loaded'.    *)
C11_StatusTracksOverlay ==
    /\ loadPhase = "loading" => statusLine = "Cadastral: loading..."
    /\ loadPhase = "failed" => statusLine = "Cadastral: not loaded"
    /\ loadPhase = "loaded" =>
          /\ ~cadastralLayer.isNull
          /\ statusLine \in { "Cadastral: loaded", "Cadastral: hidden" }
          /\ statusLine = "Cadastral: loaded" <=> cadastralLayer.onMap
          /\ statusLine = "Cadastral: hidden" <=> ~cadastralLayer.onMap

\* the overlay was loaded and then taken off the map
C11_Witness ==
    /\ loadPhase = "loaded"
    /\ ~cadastralLayer.onMap
    /\ statusLine = "Cadastral: hidden"

\* entry k of the index is the copy the load makes of feature k of the file,
\* its note aside
builtFrom(k) ==
    /\ k <= Len(rawFeatures)
    /\ cadastralFeatures[k].hasPid
    /\ [cadastralFeatures[k] EXCEPT !.note = rawFeatures[k].note] =
           buildFeatures(rawFeatures)[k]

\* C12: load-then-query sequencing under every interleaving of the load with
\* draw-created events: while the load has not completed, or after it has
\* failed, a draw-created event never gets a parcel from the search and its
\* shape is never replaced, snap enabled or not; and whenever the search has
\* scanned the feature list, the load had completed and the list was the
\* whole list the load builds.
C12_NoParcelUnlessLoaded ==
    /\ (lastEvent.op = "created" /\ loadPhase # "loaded") =>
          /\ found.kind \notin { "parcel", "raise" }
          /\ lastEvent.kept = "drawn"
          /\ drawnItems[Len(drawnItems)].ref = 0
          /\ drawnItems[Len(drawnItems)].shape = lastEvent.shape
    /\ found.kind \in { "parcel", "raise" } =>
          /\ loadPhase = "loaded"
          /\ cadastralLoaded
          /\ Len(cadastralFeatures) = Len(rawFeatures)
          /\ \A k \in 1 .. Len(cadastralFeatures) : builtFrom(k)

\* the load failed in L.geoJSON, after the feature list was assigned; with
\* snap on, a shape drawn within a parcel of that list is kept as drawn
C12_Witness ==
    /\ loadPhase = "failed"
    /\ lastEvent.op = "created"
    /\ lastEvent.snap
    /\ \E i \in 1 .. Len(cadastralFeatures) :
           /\ cadastralFeatures[i].geometry.present
           /\ ~bboxRaises(cadastralFeatures[i].geometry)
           /\ pointInGeometry(latLngToPoint(query), cadastralFeatures[i].geometry)
    /\ found = ResNull
    /\ lastEvent.kept = "drawn"

\* C13: pointInRing does not assume closure: for every ring and every query
\* point the result is the same whether the ring's vertex list ends with a
\* repeat of its first vertex or omits it.
C13_ClosureIndifferent ==
    ringOutput.done => ringOutput.asGiven = ringOutput.closed

\* a point within a triangle stored without the repeat of its first vertex
C13_Witness ==
    /\ ringOutput.done
    /\ Len(ringInput.ring) = 3
    /\ ringInput.ring[3] # ringInput.ring[1]
    /\ strictlyInside(ringInput.pt, closeRing(ringInput.ring))
    /\ ringOutput.asGiven
    /\ ringOutput.closed

\* C14: the 1e-12 substitution never influences a result: an edge with
\* yi = yj never flips the inside flag, the crossing condition is false for
\* it, so the division is evaluated only with yj - yi non-zero, and
\* pointInRing returns the same value for any substitute denominator.
C14_SubstituteNeverMatters ==
    ringOutput.done =>
        /\ ~ringOutput.levelEdgeFlips
        /\ ~ringOutput.guardUsed
        /\ ringOutput.substituted = { ringOutput.asGiven }

\* a ring with a level edge at the height of the point, the point to the
\* left of the edge's line: the unguarded quotient would put it in the ray
C14_Witness ==
    /\ ringOutput.done
    /\ \E i \in levelEdges(ringInput.ring) :
           LET vi == ringInput.ring[i]
               vj == ringInput.ring[previous(ringInput.ring, i)]
           IN  /\ vi # vj
               /\ vi[2] = ringInput.pt[2]
               /\ rayLeftOfEdge(ringInput.pt[1], ringInput.pt[2], vi[1], vi[2], vj[1], vj[2])
    /\ ringOutput.asGiven

\* the step is a draw-created event that ends with one more layer in
\* drawnItems, the drawn shape or the parcel layer put in its place, and
\* with the stored document being the serialization of drawnItems
oneLayerAddedAndStored ==
    /\ Len(drawnItems') = Len(drawnItems) + 1
    /\ SubSeq(drawnItems', 1, Len(drawnItems)) = drawnItems
    /\ \/ drawnItems'[Len(drawnItems')] = Layer(lastEvent'.shape, 0)
       \/ \E i \in 1 .. Len(cadastralFeatures) :
              drawnItems'[Len(drawnItems')] = featureToEditableLeafletLayer(i)
    /\ drawingsStore' = saveAllDrawings(drawnItems', cadastralFeatures')

\* C15: every draw-created event, snap enabled or not and whatever parcel
\* data is loaded, ends with exactly one layer (the drawn shape or its
\* snapped replacement, never both and never neither) added to drawnItems
\* and with the document stored under leaflet_drawings_with_notes_v1 equal
\* to the serialization of drawnItems at that moment.
C15_OneLayerAddedAndStored ==
    [][lastEvent'.op = "created" => oneLayerAddedAndStored]_vars

====
